---------------------------- MODULE Spec2Model ----------------------------
(***************************************************************************)
(* Model of scripts/bench_spdot.rs: the SparseVector type, its             *)
(* from_dense constructor, the scalar merge-join sparse_dot_product and    *)
(* the vectorized simsimd::sparse_dot_product the benchmark calls on the   *)
(* same operands.                                                          *)
(*                                                                         *)
(* Numbers.  u16 is modelled with its wrap-around arithmetic but with a    *)
(* scaled range 0..U16_MAX (U16_MAX stands for 65535); usize is an         *)
(* unbounded natural.  f32/f64 values are modelled on the integer-valued   *)
(* floats of small magnitude, where f32 multiplication, the f32->f64       *)
(* conversion and f64 addition are all exact, plus the two signed zeros;   *)
(* a float is the record [neg, mag].  NaN and infinities are not modelled. *)
(***************************************************************************)
EXTENDS Integers, Sequences, FiniteSets

\* ------------------------------------------------------------------ bounds
\* Largest value of the (scaled) u16 type; u16 arithmetic is modulo U16_MAX + 1.
U16_MAX == 3
\* Longest index array of an operand that violates the sortedness contract.
MaxLen == 3
\* Lanes per block of the vectorized kernel.
Lanes == 2

\* ------------------------------------------------------------------ floats
PosZero == [neg |-> FALSE, mag |-> 0]
NegZero == [neg |-> TRUE, mag |-> 0]

\* The float with integer value n (n = 0 gives +0.0).
Flt(n) == IF n < 0 THEN [neg |-> TRUE, mag |-> 0 - n] ELSE [neg |-> FALSE, mag |-> n]

ToInt(x) == IF x.neg THEN 0 - x.mag ELSE x.mag

\* IEEE ==: the two zeros compare equal.
FloatEq(x, y) == (x.mag = 0 /\ y.mag = 0) \/ x = y

\* f32 * f32: the sign is the xor of the signs, also for zeros.
F32Mul(x, y) == [neg |-> (x.neg # y.neg), mag |-> x.mag * y.mag]

\* f64::from(f32): exact.
F64From(x) == x

\* f64 + f64, round to nearest: -0.0 only from (-0.0) + (-0.0); an exact
\* cancellation of nonzero terms gives +0.0.
F64Add(x, y) ==
    IF x.mag = 0 /\ y.mag = 0
    THEN [neg |-> (x.neg /\ y.neg), mag |-> 0]
    ELSE Flt(ToInt(x) + ToInt(y))

\* ------------------------------------------------------------------ inputs
SeqsUpTo(S, n) == UNION {[1..k -> S] : k \in 0..n}

StrictlyIncreasing(s) == \A k \in 1..(Len(s) - 1) : s[k] < s[k + 1]

DupFree(s) == \A k, l \in 1..Len(s) : k # l => s[k] # s[l]

IndexSet(s) == {s[k] : k \in 1..Len(s)}

Ones(n) == [k \in 1..n |-> Flt(1)]

\* Values stored in the operands of the dot product.
F32Values == {Flt(1), Flt(2)}

\* Values of a dense vector: both zeros and nonzero entries.
DenseValues == {PosZero, NegZero, Flt(1)}

\* struct SparseVector { indices: Vec<u16>, values: Vec<f32> }
SparseVector(ix, vs) == [indices |-> ix, values |-> vs]

\* Operands that keep the contract: strictly increasing u16 indices, one
\* value per index.  Every such operand over the u16 range is drawn.
ValidOperands ==
    UNION {{SparseVector(ix, vs) : vs \in [1..Len(ix) -> F32Values]} :
           ix \in {s \in SeqsUpTo(0..U16_MAX, U16_MAX + 1) : StrictlyIncreasing(s)}}

\* Operands that break the sortedness contract (unsorted or with duplicates);
\* the struct does not prevent them.
UnsortedOperands ==
    {SparseVector(ix, Ones(Len(ix))) :
       ix \in {s \in SeqsUpTo(0..U16_MAX, MaxLen) : ~StrictlyIncreasing(s)}}

\* Operands whose values array is one short of the indices array.
MisalignedOperands ==
    {SparseVector(ix, Ones(Len(ix) - 1)) :
       ix \in {s \in SeqsUpTo(0..U16_MAX, MaxLen) : Len(s) > 0 /\ StrictlyIncreasing(s)}}

Operands == ValidOperands \cup UnsortedOperands \cup MisalignedOperands

DenseInputs == SeqsUpTo(DenseValues, U16_MAX + 2)

\* ------------------------------------------------------------------- state
VARIABLES
    self,      \* left operand of sparse_dot_product (&self)
    other,     \* right operand (other: &SparseVector)
    pc,        \* "while": at the loop condition; "done": returned; "panic"; "compared"
    i,         \* cursor into self
    j,         \* cursor into other
    matches,   \* u16 match counter
    result,    \* f64 accumulator
    err,       \* why the call panicked: "" | "overflow" | "bounds"
    iters,     \* history: loop bodies entered
    wrapped,   \* history: the u16 counter has overflowed
    neon,      \* what simsimd::sparse_dot_product returned, or <<>>
    dense_vec, \* argument of from_dense
    fd         \* outcome of from_dense: [status, sv]

vars == <<self, other, pc, err, i, j, matches, result, iters, wrapped, neon, dense_vec, fd>>

mergeVars == <<self, other, pc, err, i, j, matches, result, iters, wrapped, neon>>

denseVars == <<dense_vec, fd>>

EmptyVector == SparseVector(<<>>, <<>>)

Pending == [status |-> "pending", sv |-> EmptyVector]

\* -------------------------------------------------------------- from_dense
\* if dense_vec.len() >= u16::MAX as usize { panic!(..) }
TooLarge(len) == len >= U16_MAX

\* Variant: compares the bit patterns, so -0.0 counts as nonzero.
IsNonZeroBitwise(value) == value # PosZero

\* if value != 0.0
IsNonZero(value) == ~FloatEq(value, PosZero)

\* idx.try_into() succeeds when the usize fits a u16; unwrap() panics otherwise.
FitsU16(idx) == idx <= U16_MAX

Panicked == [status |-> "panic", sv |-> EmptyVector]

\* The for loop over dense_vec.iter().enumerate(), from position idx on, with
\* the vectors built so far in acc.sv.
RECURSIVE FromDenseScan(_, _, _)
FromDenseScan(d, idx, acc) ==
    IF idx = Len(d)
    THEN acc
    ELSE LET value == d[idx + 1] IN
         IF IsNonZero(value)
         THEN IF FitsU16(idx)
              THEN FromDenseScan(d, idx + 1,
                       [status |-> "ok",
                        sv |-> SparseVector(Append(acc.sv.indices, idx),
                                            Append(acc.sv.values, value))])
              ELSE Panicked
         ELSE FromDenseScan(d, idx + 1, acc)

from_dense(d) ==
    IF TooLarge(Len(d))
    THEN Panicked
    ELSE FromDenseScan(d, 0, [status |-> "ok", sv |-> EmptyVector])

FromDense ==
    /\ fd.status = "pending"
    /\ fd' = from_dense(dense_vec)
    /\ UNCHANGED <<dense_vec, mergeVars>>

\* ------------------------------------------------- scalar sparse_dot_product
\* Variant: || in place of &&.
LoopCondEither(a, b, ci, cj) == ci < Len(a.indices) \/ cj < Len(b.indices)

\* Variant: stops one element before the end of self.
LoopCondShort(a, b, ci, cj) == ci + 1 < Len(a.indices) /\ cj < Len(b.indices)

\* while i < self.indices.len() && j < other.indices.len()
LoopCond(a, b, ci, cj) == ci < Len(a.indices) /\ cj < Len(b.indices)

\* A slice read v[k] panics unless k < v.len().
InBounds(v, k) == k < Len(v)

\* Variant: <= in place of ==.
IndexEqOrLess(x, y) == x <= y

\* if self.indices[i] == other.indices[j]
IndexEq(x, y) == x = y

\* Variant: > in place of <.
IndexLessSwapped(x, y) == x > y

\* else if self.indices[i] < other.indices[j]
IndexLess(x, y) == x < y

\* matches += 1 on a u16: the value kept when the addition wraps.
AddOne(m) == (m + 1) % (U16_MAX + 1)

\* Variant: a counter one bit narrower.
OverflowsNarrow(m) == m + 1 > U16_MAX \div 2

\* matches += 1 overflows the u16.
Overflows(m) == m + 1 > U16_MAX

\* Variant: the multiplication by other.values[j] is lost.
ProductLeftOnly(a, b, ci, cj) == F64From(a.values[ci + 1])

\* f64::from(self.values[i] * other.values[j])
Product(a, b, ci, cj) == F64From(F32Mul(a.values[ci + 1], b.values[cj + 1]))

Abort(why) ==
    /\ pc' = "panic"
    /\ err' = why
    /\ UNCHANGED <<i, j, matches, result, wrapped>>

\* The body of the if branch: count the match, accumulate, advance both.
\* An overflowing matches += 1 panics in a build with overflow checks and
\* wraps in one without.
Matched ==
    \E checks \in (IF Overflows(matches) THEN BOOLEAN ELSE {FALSE}) :
       IF checks
       THEN Abort("overflow")
       ELSE IF ~(InBounds(self.values, i) /\ InBounds(other.values, j))
            THEN Abort("bounds")
            ELSE /\ matches' = AddOne(matches)
                 /\ wrapped' = (wrapped \/ Overflows(matches))
                 /\ result' = F64Add(result, Product(self, other, i, j))
                 /\ i' = i + 1
                 /\ j' = j + 1
                 /\ UNCHANGED <<pc, err>>

\* Variant: the smaller side drags the other cursor along.
AdvanceLeftBoth ==
    /\ i' = i + 1
    /\ j' = j + 1
    /\ UNCHANGED <<matches, result, wrapped, pc, err>>

\* else if branch: i += 1
AdvanceLeft ==
    /\ i' = i + 1
    /\ UNCHANGED <<j, matches, result, wrapped, pc, err>>

\* Variant: the else branch forgets j += 1.
AdvanceRightStuck == UNCHANGED <<i, j, matches, result, wrapped, pc, err>>

\* else branch: j += 1
AdvanceRight ==
    /\ j' = j + 1
    /\ UNCHANGED <<i, matches, result, wrapped, pc, err>>

\* One iteration of the while loop.
LoopBody ==
    /\ pc = "while"
    /\ LoopCond(self, other, i, j)
    /\ iters' = iters + 1
    /\ IF ~(InBounds(self.indices, i) /\ InBounds(other.indices, j))
       THEN Abort("bounds")
       ELSE IF IndexEq(self.indices[i + 1], other.indices[j + 1])
            THEN Matched
            ELSE IF IndexLess(self.indices[i + 1], other.indices[j + 1])
                 THEN AdvanceLeft
                 ELSE AdvanceRight
    /\ UNCHANGED <<self, other, neon, denseVars>>

\* The loop condition is false: return (matches, result).
LoopExit ==
    /\ pc = "while"
    /\ ~LoopCond(self, other, i, j)
    /\ pc' = "done"
    /\ UNCHANGED <<self, other, err, i, j, matches, result, iters, wrapped, neon, denseVars>>

\* ------------------------------------------------ simsimd::sparse_dot_product
Min(x, y) == IF x <= y THEN x ELSE y

RECURSIVE SetMax(_)
SetMax(S) ==
    LET x == CHOOSE y \in S : TRUE IN
    IF S = {x} THEN x ELSE LET m == SetMax(S \ {x}) IN IF x >= m THEN x ELSE m

\* Sum of the products of the matched lane pairs, added onto sum.
RECURSIVE AddPairs(_, _, _, _)
AddPairs(a, b, pairs, sum) ==
    IF pairs = {}
    THEN sum
    ELSE LET pq == CHOOSE x \in pairs : TRUE IN
         AddPairs(a, b, pairs \ {pq},
                  F64Add(sum, F64From(F32Mul(a.values[pq[1] + 1], b.values[pq[2] + 1]))))

\* The scalar fallback for the tail: the two-cursor merge from (ci, cj).
RECURSIVE ScalarTail(_, _, _, _, _, _)
ScalarTail(a, b, ci, cj, cnt, sum) ==
    IF ~(ci < Len(a.indices) /\ cj < Len(b.indices))
    THEN <<cnt, sum>>
    ELSE IF a.indices[ci + 1] = b.indices[cj + 1]
         THEN ScalarTail(a, b, ci + 1, cj + 1, (cnt + 1) % (U16_MAX + 1),
                         F64Add(sum, F64From(F32Mul(a.values[ci + 1], b.values[cj + 1]))))
         ELSE IF a.indices[ci + 1] < b.indices[cj + 1]
              THEN ScalarTail(a, b, ci + 1, cj, cnt, sum)
              ELSE ScalarTail(a, b, ci, cj + 1, cnt, sum)

\* Full blocks of Lanes indices from each operand: compare every lane pair,
\* accumulate the matched products, advance each cursor past the elements not
\* above the largest index both blocks cover; then the scalar tail.
RECURSIVE SimdBlocks(_, _, _, _, _, _)
SimdBlocks(a, b, ci, cj, cnt, sum) ==
    IF ci + Lanes <= Len(a.indices) /\ cj + Lanes <= Len(b.indices)
    THEN LET blockA == ci..(ci + Lanes - 1)
             blockB == cj..(cj + Lanes - 1)
             pairs == {pq \in blockA \X blockB :
                         a.indices[pq[1] + 1] = b.indices[pq[2] + 1]}
             covered == Min(SetMax({a.indices[p + 1] : p \in blockA}),
                            SetMax({b.indices[q + 1] : q \in blockB}))
             stepA == Cardinality({p \in blockA : a.indices[p + 1] <= covered})
             stepB == Cardinality({q \in blockB : b.indices[q + 1] <= covered})
         IN SimdBlocks(a, b, ci + stepA, cj + stepB,
                       (cnt + Cardinality(pairs)) % (U16_MAX + 1),
                       AddPairs(a, b, pairs, sum))
    ELSE ScalarTail(a, b, ci, cj, cnt, sum)

simsimd_sparse_dot_product(a, b) == SimdBlocks(a, b, 0, 0, 0, PosZero)

Aligned(v) == Len(v.values) = Len(v.indices)

\* The benchmark's second group: the vectorized kernel on the same operands
\* (vectors of generate_intersecting_vectors, one value per index).
BenchNeon ==
    /\ pc = "done"
    /\ Aligned(self) /\ Aligned(other)
    /\ neon' = simsimd_sparse_dot_product(self, other)
    /\ pc' = "compared"
    /\ UNCHANGED <<self, other, err, i, j, matches, result, iters, wrapped, denseVars>>

\* ---------------------------------------------------------- specifications
\* sparse_dot_product entered: result = 0.0, i = 0, j = 0, matches = 0.
Init ==
    /\ self \in Operands
    /\ other \in Operands
    /\ pc = "while"
    /\ err = ""
    /\ i = 0
    /\ j = 0
    /\ matches = 0
    /\ result = PosZero
    /\ iters = 0
    /\ wrapped = FALSE
    /\ neon = <<>>
    /\ dense_vec = <<>>
    /\ fd = Pending

Next == LoopBody \/ LoopExit \/ BenchNeon

Spec == Init /\ [][Next]_vars

\* from_dense called on a dense vector.
InitDense ==
    /\ dense_vec \in DenseInputs
    /\ fd = Pending
    /\ self = EmptyVector
    /\ other = EmptyVector
    /\ pc = "done"
    /\ err = ""
    /\ i = 0
    /\ j = 0
    /\ matches = 0
    /\ result = PosZero
    /\ iters = 0
    /\ wrapped = FALSE
    /\ neon = <<0, PosZero>>

NextDense == FromDense

SpecDense == InitDense /\ [][NextDense]_vars

\* ------------------------------------------------------------------ claims
\* The SparseVector contract: strictly increasing indices, one value per index.
ValidSparseVector(v) == StrictlyIncreasing(v.indices) /\ Aligned(v)

ValidPair == ValidSparseVector(self) /\ ValidSparseVector(other)

\* sparse_dot_product has returned (matches, result).
Returned == pc \in {"done", "compared"}

\* Indices present in both operands.
Shared == IndexSet(self.indices) \cap IndexSet(other.indices)

\* The value an operand stores for index k, looked up directly.
Lookup(v, k) == v.values[CHOOSE p \in 1..Len(v.indices) : v.indices[p] = k]

\* Reference dot product: the sum over the shared indices, in the integers.
RECURSIVE RefSum(_)
RefSum(S) ==
    IF S = {}
    THEN 0
    ELSE LET k == CHOOSE x \in S : TRUE IN
         ToInt(Lookup(self, k)) * ToInt(Lookup(other, k)) + RefSum(S \ {k})

\* C1 as stated: for valid operands the returned match count is the size of
\* the intersection of the two index sets.
C1_CountIsIntersection ==
    (Returned /\ ValidPair) => matches = Cardinality(Shared)

\* C1 amended: for valid operands that share at most U16_MAX indices, the
\* returned match count is the size of the intersection of the index sets.
C1_CountIsIntersectionIfRepresentable ==
    (Returned /\ ValidPair /\ Cardinality(Shared) <= U16_MAX)
        => matches = Cardinality(Shared)

\* A partial overlap has been counted: some indices shared, some not.
C1_Witness ==
    /\ Returned /\ ValidPair
    /\ Cardinality(Shared) >= 2
    /\ Cardinality(Shared) < Len(self.indices)
    /\ Cardinality(Shared) < Len(other.indices)
    /\ matches = Cardinality(Shared)

\* C2: for valid operands the returned dot product is the sum over the shared
\* indices of the product of the two stored values; unshared indices add nothing.
C2_DotIsSumOverShared ==
    (Returned /\ ValidPair) => result = Flt(RefSum(Shared))

\* A dot product over two shared indices with differing values, next to
\* unshared indices on both sides.
C2_Witness ==
    /\ Returned /\ ValidPair
    /\ Cardinality(Shared) = 2
    /\ Len(self.indices) > 2 /\ Len(other.indices) > 2
    /\ self.values # other.values
    /\ result = Flt(6)

\* C3 as stated: from_dense panics exactly when the dense input has length
\* U16_MAX + 1 (65536) or more, and succeeds up to length U16_MAX (65535).
C3_PanicsExactlyFromCapacity ==
    fd.status # "pending" =>
        (fd.status = "panic" <=> Len(dense_vec) >= U16_MAX + 1)

\* Positions of the dense vector holding a value that is not (IEEE) zero.
NonZeroPositions == {p \in 0..(Len(dense_vec) - 1) : ~FloatEq(dense_vec[p + 1], PosZero)}

\* C4: an accepted dense vector yields exactly its nonzero positions, strictly
\* ascending, each with its own value, and as many values as indices.
C4_FromDenseExact ==
    fd.status = "ok" =>
        /\ Len(fd.sv.indices) = Len(fd.sv.values)
        /\ StrictlyIncreasing(fd.sv.indices)
        /\ IndexSet(fd.sv.indices) = NonZeroPositions
        /\ \A k \in 1..Len(fd.sv.indices) :
              /\ fd.sv.indices[k] \in 0..(Len(dense_vec) - 1)
              /\ fd.sv.values[k] = dense_vec[fd.sv.indices[k] + 1]

\* A dense vector with a negative zero in front of a nonzero entry was converted.
C4_Witness ==
    /\ fd.status = "ok"
    /\ Len(dense_vec) >= 2
    /\ dense_vec[1] = NegZero
    /\ fd.sv.indices = <<Len(dense_vec) - 1>>

\* C5 as stated: for valid operands the call never panics, never reads out of
\* bounds and the u16 match counter never overflows.
C5_NoFailureNoOverflow ==
    ValidPair =>
        /\ pc # "panic"
        /\ ~wrapped
        /\ i <= Len(self.indices) /\ j <= Len(other.indices)

\* C5 amended: the same for valid operands that share at most U16_MAX indices.
C5_NoFailureIfRepresentable ==
    (ValidPair /\ Cardinality(Shared) <= U16_MAX) =>
        /\ pc # "panic"
        /\ ~wrapped
        /\ i <= Len(self.indices) /\ j <= Len(other.indices)
        /\ (pc = "while" => ENABLED (LoopBody \/ LoopExit))

\* The largest representable count was returned.
C5_Witness ==
    /\ Returned /\ ValidPair
    /\ matches = U16_MAX
    /\ ~wrapped

AnEmptyOperand == Len(self.indices) = 0 \/ Len(other.indices) = 0

\* C7: with an empty operand the loop body is never entered and (0, 0.0) is returned.
C7_EmptyOperand ==
    AnEmptyOperand =>
        /\ iters = 0
        /\ pc # "panic"
        /\ (pc = "while" => ENABLED LoopExit)
        /\ (Returned => matches = 0 /\ result = PosZero)

\* Returned with only the left operand empty.
C7_Witness ==
    /\ pc = "done"
    /\ Len(self.indices) = 0
    /\ Len(other.indices) = MaxLen
    /\ matches = 0 /\ result = PosZero

\* Duplicate-free operands, one value per index, at least one not sorted.
UnsortedDupFreePair ==
    /\ DupFree(self.indices) /\ DupFree(other.indices)
    /\ Aligned(self) /\ Aligned(other)
    /\ ~(StrictlyIncreasing(self.indices) /\ StrictlyIncreasing(other.indices))

\* C8: on duplicate-free unsorted operands the merge neither checks the order
\* nor fails on it (its only abort is the counter overflow), and the count it
\* returns is at most the number of shared indices.
C8_UnsortedUnderCounts ==
    UnsortedDupFreePair =>
        /\ (pc = "panic" => err = "overflow")
        /\ (Returned => matches <= Cardinality(Shared))

\* An unsorted pair returned strictly fewer matches than it shares indices.
C8_Witness ==
    /\ Returned /\ UnsortedDupFreePair
    /\ matches < Cardinality(Shared)

\* C9 (state part): at most len + len iterations, cursors within 0..=len, and
\* the loop is left exactly when a cursor is at the end of its array.
C9_Bounded ==
    /\ iters <= Len(self.indices) + Len(other.indices)
    /\ (pc # "panic" => iters <= i + j)
    /\ i \in 0..Len(self.indices)
    /\ j \in 0..Len(other.indices)
    /\ (Returned => (i = Len(self.indices) \/ j = Len(other.indices)))
    /\ (pc = "while" =>
          (ENABLED LoopExit <=> (i = Len(self.indices) \/ j = Len(other.indices))))

\* C9 (step part): a completed iteration moves no cursor backwards, moves each
\* by at most one and at least one of them by one.
C9_Step ==
    (pc = "while" /\ pc' = "while" /\ iters' = iters + 1) =>
        /\ i' \in {i, i + 1}
        /\ j' \in {j, j + 1}
        /\ i' + j' > i + j

\* C9: for any operands, valid or not, the merge loop terminates within
\* len(a.indices) + len(b.indices) iterations, each advancing a cursor.
C9_Terminates == []C9_Bounded /\ [][C9_Step]_vars

\* A run over an operand that breaks the contract used every iteration it can.
C9_Witness ==
    /\ Returned
    /\ ~ValidSparseVector(self)
    /\ Len(self.indices) = MaxLen /\ Len(other.indices) >= 2
    /\ iters = Len(self.indices) + Len(other.indices) - 1

Prefix(s, n) == {s[k] : k \in 1..n}

Suffix(s, n) == {s[k] : k \in (n + 1)..Len(s)}

\* C10: at the start of every iteration on valid operands, the counter is the
\* number of indices common to the consumed prefixes, and no consumed index of
\* one operand is still ahead in the other.
C10_LoopInvariant ==
    (pc = "while" /\ LoopCond(self, other, i, j) /\ ValidPair) =>
        /\ matches = Cardinality(Prefix(self.indices, i) \cap Prefix(other.indices, j))
        /\ Prefix(self.indices, i) \cap Suffix(other.indices, j) = {}
        /\ Prefix(other.indices, j) \cap Suffix(self.indices, i) = {}

\* An iteration starts after a skip and a match, the cursors apart.
C10_Witness ==
    /\ pc = "while" /\ LoopCond(self, other, i, j) /\ ValidPair
    /\ matches = 1
    /\ i >= 2 /\ j >= 1 /\ i # j

=============================================================================
